---- MODULE Spec2Model ----
(***************************************************************************)
(* A model of rzd-bot: the search conversation (bot.py, ConversationHandler *)
(* with the handlers search_start .. confirm_search, cancel), the          *)
(* subscribe callback, the periodic job check_tickets_periodically and     *)
(* the provider client RzdAPI (rzd_api.py).                                *)
(*                                                                         *)
(* The bot runs on python-telegram-bot 13 (Updater/Dispatcher/Filters):    *)
(* updates are handled one at a time by the dispatcher thread, the         *)
(* repeating job runs on the job queue's own thread.  A handler is one     *)
(* atomic action; the job is a sequence of steps, one per subscription     *)
(* visited, between which handlers may run.                                *)
(***************************************************************************)
EXTENDS Integers, Sequences, FiniteSets, TLC

\* ------------------------------------------------------------------ bounds

\* Telegram user ids that talk to the bot.
Users == {1, 2}

\* Search records kept over all users, subscriptions kept over all users,
\* ticks of the repeating job, and the lengths of the old and new offer lists
\* of DiffSpec.
MaxSearches == 2
MaxSubs == 2
MaxTime == 1
MaxOld == 2
MaxLen == 3

\* ------------------------------------------------------------- python values

\* Python's None, as the value of a missing key read with dict.get.
None == "None"

\* bool(x) of a train number: None and the empty string are falsy.
Truthy(x) == x # None /\ x # ""

\* ------------------------------------------------------------- the diff

\* _find_new_tickets without the "if t.get('number')" filter: the numbers
\* None and "" of old tickets count as seen.
BadFindNewTicketsNoFilter(old_tickets, new_tickets) ==
    LET old_numbers == { old_tickets[i].number : i \in DOMAIN old_tickets }
        Keep(t) == t.number \notin old_numbers
    IN  SelectSeq(new_tickets, Keep)

\* _find_new_tickets: old_numbers is the set of the truthy numbers of
\* old_tickets; the result keeps, in order, the new tickets whose number is
\* not in old_numbers.
find_new_tickets(old_tickets, new_tickets) ==
    LET old_numbers == { old_tickets[i].number :
                            i \in { j \in DOMAIN old_tickets : Truthy(old_tickets[j].number) } }
        Keep(t) == t.number \notin old_numbers
    IN  SelectSeq(new_tickets, Keep)

\* ------------------------------------------------------------- the provider

\* What one HTTP exchange with the provider ends in: a JSON body (for the
\* timetable a dict with the trains under 'tp'), a
\* requests.exceptions.RequestException (connection error, HTTP error
\* status), or any other exception raised while the body is read (a body
\* whose shape the parser does not expect).
JsonBody(trains) == [kind |-> "json", tp |-> trains]
RequestException == [kind |-> "RequestException", tp |-> <<>>]
OtherException == [kind |-> "Exception", tp |-> <<>>]

Train(n) == [number |-> n, date0 |-> "28.02.2099", time0 |-> "10:00"]

TrainsAB == << Train("001A"), Train("002B") >>
TrainsLong == << Train("001A"), Train("002B"), Train("003C"),
                 Train("004D"), Train("005E"), Train(None) >>

\* The timetable exchanges the provider may answer a fetch with.
Responses ==
    { JsonBody(<<>>), JsonBody(TrainsAB), JsonBody(TrainsLong),
      RequestException, OtherException }

\* Those that carry trains.
FoundResponses == { JsonBody(TrainsAB), JsonBody(TrainsLong) }

\* A value returned or an exception raised.
Return(v) == [raised |-> FALSE, value |-> v]
Raise == [raised |-> TRUE, value |-> <<>>]

\* The empty dict {} and a dict holding 'tp'.
EmptyDict == [empty |-> TRUE, tp |-> <<>>]
Dict(trains) == [empty |-> FALSE, tp |-> trains]

\* get_timetable: a RequestException is caught and {} returned; any other
\* exception leaves the method.
get_timetable(resp) ==
    CASE resp.kind = "RequestException" -> Return(EmptyDict)
      [] resp.kind = "Exception" -> Raise
      [] OTHER -> Return(Dict(resp.tp))

\* One entry of the list get_tickets builds from a train of 'tp'.
ParseTrain(train) ==
    [number |-> train.number, departure |-> << train.date0, train.time0 >>]

\* get_tickets: [] for a falsy timetable, else one ticket per train, in the
\* provider's order.
get_tickets(resp) ==
    LET timetable == get_timetable(resp)
    IN  IF timetable.raised THEN Raise
        ELSE IF timetable.value.empty THEN Return(<<>>)
        ELSE Return([i \in 1..Len(timetable.value.tp) |->
                        ParseTrain(timetable.value.tp[i])])

\* The station names users type and what the suggester answers to each.
Station(c, n) == [code |-> c, name |-> n]
FromQueries == {"Moskva", "zzz"}
ToQueries == {"Tver", "zzz"}
Suggest(q) ==
    CASE q = "Moskva" -> << Station("2000000", "MOSKVA"), Station("2000001", "MOSKVA KUR") >>
      [] q = "Tver" -> << Station("2004600", "TVER") >>
      [] OTHER -> <<>>

\* The suggester exchanges: the JSON list of stations, or a RequestException.
StationList(stations) == [kind |-> "json", list |-> stations]
StationFailure == [kind |-> "RequestException", list |-> <<>>]
StationResponses(q) == { StationList(Suggest(q)), StationFailure }

\* station_by_name: the JSON list, or [] when the request raised.
station_by_name(resp) == IF resp.kind = "RequestException" THEN <<>> ELSE resp.list

\* ------------------------------------------------------------- dates

\* A text typed as the date: three dot-separated numeric fields, or anything
\* else.
DateText(d, m, y) == [fmt |-> "d.m.Y", d |-> d, m |-> m, y |-> y]
NotADate == [fmt |-> "other", d |-> 0, m |-> 0, y |-> 0]

Date(d, m, y) == [d |-> d, m |-> m, y |-> y]
FirstDay == Date(27, 2, 2099)
LastDay == Date(1, 3, 2099)

DateTexts ==
    { DateText(28, 2, 2099), DateText(31, 2, 2099), NotADate }

IsLeap(y) == (y % 4 = 0 /\ y % 100 # 0) \/ y % 400 = 0

DaysInMonth(m, y) ==
    CASE m = 2 -> IF IsLeap(y) THEN 29 ELSE 28
      [] m \in {4, 6, 9, 11} -> 30
      [] OTHER -> 31

\* strptime that takes any day up to 31 in every month.
BadStrptimeNoDayCheck(text) ==
    IF text.fmt = "d.m.Y" /\ text.m \in 1..12 /\ text.d \in 1..31
    THEN Return(Date(text.d, text.m, text.y))
    ELSE Raise

\* datetime.strptime(text, "%d.%m.%Y"): ValueError unless the fields are a
\* day of the calendar.
strptime(text) ==
    IF /\ text.fmt = "d.m.Y"
       /\ text.y \in 1..9999
       /\ text.m \in 1..12
       /\ text.d \in 1..DaysInMonth(text.m, text.y)
    THEN Return(Date(text.d, text.m, text.y))
    ELSE Raise

\* date < date
DateBefore(a, b) ==
    \/ a.y < b.y
    \/ a.y = b.y /\ a.m < b.m
    \/ a.y = b.y /\ a.m = b.m /\ a.d < b.d

NextDay(a) ==
    IF a.d < DaysInMonth(a.m, a.y) THEN Date(a.d + 1, a.m, a.y)
    ELSE IF a.m < 12 THEN Date(1, a.m + 1, a.y)
    ELSE Date(1, 1, a.y + 1)

\* ------------------------------------------------------------- the state

VARIABLES
    conv,                   \* ConversationHandler's state of each user's conversation
    user_data,              \* context.user_data of each user
    user_searches,          \* RzdTicketBot.user_searches: the records of each user
    subKeys,                \* the keys of RzdTicketBot.active_subscriptions, in insertion order
    active_subscriptions,   \* per user, the subscribed records (positions in user_searches)
    sweep,                  \* where the running check_tickets_periodically job is
    now,                    \* the clock read by datetime.now(pytz.utc)
    today,                  \* the calendar day read by datetime.now().date()
    update,                 \* the update the last step handled
    msgs,                   \* the messages the last step sent through the bot
    calls,                  \* the provider requests the last step made
    diff,                   \* a call of _find_new_tickets: its arguments and its result
    entered,                \* history: what each user has entered since the last /search
    told                    \* history: the trains each record's owner has been told of

\* entered and told are history variables: no handler reads or writes them.
\* They are set next to the steps, by ObserveEntered and ObserveTold below,
\* from what the step was given and what it sent.
hist == << entered, told >>

vars == << conv, user_data, user_searches, subKeys, active_subscriptions,
           sweep, now, today, update, msgs, calls, diff, entered, told >>

\* ConversationHandler.END and the four states of the handler.
END == "END"
SELECT_STATION_FROM == "SELECT_STATION_FROM"
SELECT_STATION_TO == "SELECT_STATION_TO"
SELECT_DATE == "SELECT_DATE"
CONFIRM_SEARCH == "CONFIRM_SEARCH"

\* A key of user_data that was never set.
NoStation == Station(None, None)
NoDateText == [fmt |-> "unset", d |-> 0, m |-> 0, y |-> 0]

\* An update: who sent it, whether it is a command, a text message or a
\* callback query, and the command, text or callback data (a date typed is
\* under date, the index of subscribe_<index> under n).  The job's steps and
\* the passing of time handle no update.
Update(u, kind, data, date, n) ==
    [user |-> u, kind |-> kind, data |-> data, date |-> date, n |-> n]
NoUpdate == Update(0, "none", "", NoDateText, 0)
Command(u, name) == Update(u, "command", name, NoDateText, 0)
Text(u, text) == Update(u, "text", text, NoDateText, 0)
TextDate(u, date_str) == Update(u, "text", "date", date_str, 0)
Callback(u, data) == Update(u, "callback_query", data, NoDateText, 0)
CallbackSubscribe(u, data) ==
    Update(u, "callback_query",
           IF data.isint THEN "subscribe_<index>" ELSE "subscribe_<text>",
           NoDateText, data.n)

\* A message to a user: its text (kind), the offers it lists, the index its
\* button carries, and whether the send call returned.
Msg(u, kind) == [to |-> u, kind |-> kind, body |-> <<>>, idx |-> -1, ok |-> TRUE]
MsgOffers(u, kind, offers, ok) ==
    [to |-> u, kind |-> kind, body |-> offers, idx |-> -1, ok |-> ok]
MsgButton(u, kind, k) == [to |-> u, kind |-> kind, body |-> <<>>, idx |-> k, ok |-> TRUE]

\* One call of a method of RzdAPI: its arguments and the provider's answer.
Call(api, args, resp) == [api |-> api, args |-> args, resp |-> resp]

RECURSIVE SumLen(_, _)
SumLen(f, S) ==
    IF S = {} THEN 0
    ELSE LET u == CHOOSE x \in S : TRUE
         IN  Len(f[u]) + SumLen(f, S \ {u})

Take(s, n) == SubSeq(s, 1, IF Len(s) < n THEN Len(s) ELSE n)

\* tickets[:5] of confirm_search
ShowLimit == 5

\* Nothing entered yet, nobody told of anything.
NothingEntered ==
    [u \in Users |-> [station_from |-> NoStation, station_to |-> NoStation,
                      date |-> NoDateText]]
NothingTold == {}

\* No call of _find_new_tickets under study.
NoDiff == [old_tickets |-> <<>>, new_tickets |-> <<>>, result |-> <<>>, done |-> FALSE]

Init ==
    /\ conv = [u \in Users |-> END]
    /\ user_data = [u \in Users |->
                      [station_from |-> NoStation, station_to |-> NoStation,
                       date |-> NoDateText]]
    /\ user_searches = [u \in Users |-> <<>>]
    /\ subKeys = <<>>
    /\ active_subscriptions = [u \in Users |-> <<>>]
    /\ sweep = [pc |-> "idle", size |-> 0, k |-> 0, i |-> 0]
    /\ now = 0
    /\ today = FirstDay
    /\ update = NoUpdate
    /\ msgs = <<>>
    /\ calls = <<>>
    /\ diff = NoDiff
    /\ entered = NothingEntered
    /\ told = NothingTold

\* ------------------------------------------------------------- the conversation

\* /search, the entry point: taken only when the user has no conversation.
search_start(u) ==
    /\ conv[u] = END
    /\ update' = Command(u, "/search")
    /\ conv' = [conv EXCEPT ![u] = SELECT_STATION_FROM]
    /\ msgs' = << Msg(u, "ask_station_from") >>
    /\ calls' = <<>>
    /\ UNCHANGED << user_data, user_searches, subKeys, active_subscriptions,
                    sweep, now, today, diff >>

BadSelectStationFromLastCandidate(u, query, resp) ==
    /\ conv[u] = SELECT_STATION_FROM
    /\ update' = Text(u, query)
    /\ calls' = << Call("station_by_name", << query >>, resp) >>
    /\ LET stations == station_by_name(resp)
       IN  IF stations = <<>>
           THEN /\ msgs' = << Msg(u, "stations_not_found") >>
                /\ UNCHANGED << conv, user_data >>
           ELSE /\ user_data' = [user_data EXCEPT ![u].station_from =
                                    Station(stations[Len(stations)].code,
                                            stations[Len(stations)].name)]
                /\ msgs' = << Msg(u, "ask_station_to") >>
                /\ conv' = [conv EXCEPT ![u] = SELECT_STATION_TO]
    /\ UNCHANGED << user_searches, subKeys, active_subscriptions, sweep, now,
                    today, diff >>

select_station_from(u, query, resp) ==
    /\ conv[u] = SELECT_STATION_FROM
    /\ update' = Text(u, query)
    /\ calls' = << Call("station_by_name", << query >>, resp) >>
    /\ LET stations == station_by_name(resp)
       IN  IF stations = <<>>
           THEN /\ msgs' = << Msg(u, "stations_not_found") >>
                /\ UNCHANGED << conv, user_data >>
           ELSE /\ user_data' = [user_data EXCEPT ![u].station_from =
                                    Station(stations[1].code, stations[1].name)]
                /\ msgs' = << Msg(u, "ask_station_to") >>
                /\ conv' = [conv EXCEPT ![u] = SELECT_STATION_TO]
    /\ UNCHANGED << user_searches, subKeys, active_subscriptions, sweep, now,
                    today, diff >>

select_station_to(u, query, resp) ==
    /\ conv[u] = SELECT_STATION_TO
    /\ update' = Text(u, query)
    /\ calls' = << Call("station_by_name", << query >>, resp) >>
    /\ LET stations == station_by_name(resp)
       IN  IF stations = <<>>
           THEN /\ msgs' = << Msg(u, "stations_not_found") >>
                /\ UNCHANGED << conv, user_data >>
           ELSE /\ user_data' = [user_data EXCEPT ![u].station_to =
                                    Station(stations[1].code, stations[1].name)]
                /\ msgs' = << Msg(u, "ask_date") >>
                /\ conv' = [conv EXCEPT ![u] = SELECT_DATE]
    /\ UNCHANGED << user_searches, subKeys, active_subscriptions, sweep, now,
                    today, diff >>

\* The try block of select_date: TRUE when it ends in the except clause.
DateRejected(date_str) ==
    LET parsed == strptime(date_str)
    IN  parsed.raised \/ DateBefore(parsed.value, today)

select_date(u, date_str) ==
    /\ conv[u] = SELECT_DATE
    /\ update' = TextDate(u, date_str)
    /\ IF DateRejected(date_str)
       THEN /\ msgs' = << Msg(u, "bad_date_ask_date") >>
            /\ UNCHANGED << conv, user_data >>
       ELSE /\ user_data' = [user_data EXCEPT ![u].date = date_str]
            /\ msgs' = << Msg(u, "confirm_or_cancel") >>
            /\ conv' = [conv EXCEPT ![u] = CONFIRM_SEARCH]
    /\ calls' = <<>>
    /\ UNCHANGED << user_searches, subKeys, active_subscriptions, sweep, now,
                    today, diff >>

BadCancelKeepsConversation(u) ==
    /\ conv[u] # END
    /\ update' = Command(u, "/cancel")
    /\ msgs' = << Msg(u, "action_cancelled") >>
    /\ calls' = <<>>
    /\ UNCHANGED << conv, user_data, user_searches, subKeys, active_subscriptions,
                    sweep, now, today, diff >>

\* The /cancel fallback, taken in every state of a running conversation.
cancel(u) ==
    /\ conv[u] # END
    /\ update' = Command(u, "/cancel")
    /\ conv' = [conv EXCEPT ![u] = END]
    /\ msgs' = << Msg(u, "action_cancelled") >>
    /\ calls' = <<>>
    /\ UNCHANGED << user_data, user_searches, subKeys, active_subscriptions,
                    sweep, now, today, diff >>

\* confirm_search is a CallbackQueryHandler callback.  The Update of a
\* callback query carries the pressed message under callback_query.message;
\* Update.message is None, so update.message.reply_text raises
\* AttributeError.
CallbackUpdateHasMessage == FALSE

BadSearchDataSwapsStations(params, tickets) ==
    [from |-> params.station_to, to |-> params.station_from,
     date |-> params.date, last_check |-> now, tickets |-> tickets]

\* The search_data dict confirm_search appends.
SearchData(params, tickets) ==
    [from |-> params.station_from, to |-> params.station_to,
     date |-> params.date, last_check |-> now, tickets |-> tickets]

\* What confirm_search does once the search has found tickets: the messages
\* it sends and the state it leaves the conversation in.
FoundReply(u, tickets, idx) ==
    IF CallbackUpdateHasMessage
    THEN [msgs |-> << MsgOffers(u, "found_tickets", Take(tickets, ShowLimit), TRUE),
                      MsgButton(u, "offer_subscribe", idx) >>,
          state |-> END]
    ELSE \* the handler raised: the dispatcher calls error_handler and the
         \* conversation keeps its state
         [msgs |-> << MsgOffers(u, "found_tickets", Take(tickets, ShowLimit), TRUE),
                      Msg(u, "error_handler") >>,
          state |-> conv[u]]

\* The button pressed under the summary: confirm_search or cancel_search.
confirm_search(u, data, resp) ==
    /\ conv[u] = CONFIRM_SEARCH
    /\ update' = Callback(u, data)
    /\ IF data = "cancel_search"
       THEN /\ msgs' = << Msg(u, "search_cancelled") >>
            /\ conv' = [conv EXCEPT ![u] = END]
            /\ calls' = <<>>
            /\ UNCHANGED user_searches
       ELSE LET search_params == user_data[u]
                date == strptime(search_params.date).value
                got == get_tickets(resp)
                tickets == got.value
            IN  /\ calls' = << Call("get_tickets",
                                    << search_params.station_from.code,
                                       search_params.station_to.code, date >>,
                                    resp) >>
                /\ IF got.raised
                   THEN /\ msgs' = << Msg(u, "search_error") >>
                        /\ conv' = [conv EXCEPT ![u] = END]
                        /\ UNCHANGED user_searches
                   ELSE IF tickets = <<>>
                   THEN /\ msgs' = << Msg(u, "no_tickets") >>
                        /\ conv' = [conv EXCEPT ![u] = END]
                        /\ UNCHANGED user_searches
                   ELSE /\ SumLen(user_searches, Users) < MaxSearches
                        /\ user_searches' =
                              [user_searches EXCEPT ![u] =
                                  Append(@, SearchData(search_params, tickets))]
                        /\ LET reply == FoundReply(u, tickets, Len(user_searches[u]))
                           IN  /\ msgs' = reply.msgs
                               /\ conv' = [conv EXCEPT ![u] = reply.state]
    /\ UNCHANGED << user_data, subKeys, active_subscriptions, sweep, now, today, diff >>

\* ------------------------------------------------------------- subscribe

\* The text after "subscribe_" in the callback data: an integer literal or
\* anything else.
IntData(n) == [isint |-> TRUE, n |-> n]
NotAnInt == [isint |-> FALSE, n |-> 0]
SubscribeData == { IntData(n) : n \in -1..MaxSearches } \cup { NotAnInt }

\* list[i] of Python: 0-based, negative indices count from the end.
BadInRangeInclusive(list, i) == -Len(list) <= i /\ i <= Len(list)

InRange(list, i) == -Len(list) <= i /\ i < Len(list)
BadPositionLast(list, i) == Len(list)

Position(list, i) == IF i >= 0 THEN i + 1 ELSE Len(list) + i + 1

SetDefaultKey(keys, u) ==
    IF \E k \in DOMAIN keys : keys[k] = u THEN keys ELSE Append(keys, u)

\* A subscription is the search_data dict itself, not a copy: it is kept
\* here as the position of that dict in user_searches[u].
subscribe(u, data) ==
    /\ update' = CallbackSubscribe(u, data)
    /\ calls' = <<>>
    /\ IF ~data.isint
       THEN \* int() raises ValueError
            /\ msgs' = << Msg(u, "error_handler") >>
            /\ UNCHANGED << subKeys, active_subscriptions >>
       ELSE /\ subKeys' = SetDefaultKey(subKeys, u)
            /\ IF user_searches[u] = <<>> \/ ~InRange(user_searches[u], data.n)
               THEN \* KeyError or IndexError
                    /\ msgs' = << Msg(u, "error_handler") >>
                    /\ UNCHANGED active_subscriptions
               ELSE /\ SumLen(active_subscriptions, Users) < MaxSubs
                    /\ active_subscriptions' =
                          [active_subscriptions EXCEPT ![u] =
                              Append(@, Position(user_searches[u], data.n))]
                    /\ msgs' = << Msg(u, "subscribed") >>
    /\ UNCHANGED << conv, user_data, user_searches, sweep, now, today, diff >>

\* /subscriptions: the reply, which lists route, date and last check of
\* every subscription, or says that there is none.
show_subscriptions(u) ==
    IF (\A k \in DOMAIN subKeys : subKeys[k] # u) \/ active_subscriptions[u] = <<>>
    THEN [kind |-> "no_subscriptions", body |-> <<>>]
    ELSE [kind |-> "subscriptions",
          body |-> [i \in DOMAIN active_subscriptions[u] |->
                      LET sub == user_searches[u][active_subscriptions[u][i]]
                      IN  << sub.from.name, sub.to.name, sub.date, sub.last_check >>]]

\* ------------------------------------------------------------- the periodic job

\* job_queue.run_repeating fires the job: the dict iterator of
\* active_subscriptions.items() remembers the size of the dict.  The clock
\* is read up to MaxTime: every later time reads MaxTime.
TickStart ==
    /\ sweep.pc = "idle"
    /\ now' = IF now < MaxTime THEN now + 1 ELSE now
    /\ sweep' = [pc |-> "run", size |-> Len(subKeys), k |-> 0, i |-> 0]
    /\ update' = NoUpdate
    /\ msgs' = <<>>
    /\ calls' = <<>>
    /\ UNCHANGED << conv, user_data, user_searches, subKeys, active_subscriptions,
                    today, diff >>

\* The two nested for loops, from the pair (k, i) visited last to the next
\* one.  The list iterator reads the list's current length; the dict iterator
\* raises RuntimeError when the dict's size is not the one it remembers.
RECURSIVE Advance(_, _)
Advance(k, i) ==
    IF k > 0 /\ i < Len(active_subscriptions[subKeys[k]])
    THEN [kind |-> "pair", k |-> k, i |-> i + 1]
    ELSE IF Len(subKeys) # sweep.size
    THEN [kind |-> "RuntimeError", k |-> k, i |-> i]
    ELSE IF k >= Len(subKeys)
    THEN [kind |-> "StopIteration", k |-> k, i |-> i]
    ELSE Advance(k + 1, 0)

\* The notification of the new tickets: whom it goes to and what it lists.
Notification(user_id, new_tickets, ok) ==
    MsgOffers(user_id, "new_tickets", new_tickets, ok)

BadBodyResultStoresDespiteSendFailure(sub, tickets, new_tickets, past, sendOk) ==
    IF past THEN sub
    ELSE [sub EXCEPT !.tickets = tickets, !.last_check = now]

\* What the body of the loop leaves of sub: sub as it was (continue, or an
\* exception caught by the except clause), or sub with tickets and
\* last_check assigned.
BodyResult(sub, tickets, new_tickets, past, sendOk) ==
    IF past THEN sub
    ELSE IF new_tickets # <<>> /\ ~sendOk THEN sub
    ELSE [sub EXCEPT !.tickets = tickets, !.last_check = now]

\* One pass of the loop body, for the next pair: the fetch, the date check,
\* the diff, the notification, the update.
SweepPair(resp, sendOk) ==
    /\ sweep.pc = "run"
    /\ LET nxt == Advance(sweep.k, sweep.i)
       IN  /\ nxt.kind = "pair"
           /\ sweep' = [sweep EXCEPT !.k = nxt.k, !.i = nxt.i]
           /\ LET user_id == subKeys[nxt.k]
                  pos == active_subscriptions[user_id][nxt.i]
                  sub == user_searches[user_id][pos]
                  got == get_tickets(resp)
                  tickets == got.value
                  search_date == strptime(sub.date).value
                  past == DateBefore(search_date, today)
                  new_tickets == find_new_tickets(sub.tickets, tickets)
              IN  /\ calls' = << Call("get_tickets",
                                      << sub.from.code, sub.to.code, search_date >>,
                                      resp) >>
                  /\ IF got.raised
                     THEN /\ msgs' = <<>>
                          /\ UNCHANGED user_searches
                     ELSE /\ msgs' = IF ~past /\ new_tickets # <<>>
                                     THEN << Notification(user_id, new_tickets, sendOk) >>
                                     ELSE <<>>
                          /\ user_searches' =
                                [user_searches EXCEPT ![user_id][pos] =
                                    BodyResult(sub, tickets, new_tickets, past, sendOk)]
    /\ update' = NoUpdate
    /\ UNCHANGED << conv, user_data, subKeys, active_subscriptions, now, today, diff >>

\* The loops end: the job returns.
SweepDone ==
    /\ sweep.pc = "run"
    /\ Advance(sweep.k, sweep.i).kind = "StopIteration"
    /\ sweep' = [pc |-> "idle", size |-> 0, k |-> 0, i |-> 0]
    /\ update' = NoUpdate
    /\ msgs' = <<>>
    /\ calls' = <<>>
    /\ UNCHANGED << conv, user_data, user_searches, subKeys, active_subscriptions,
                    now, today, diff >>

\* The dict changed size under the iterator: RuntimeError leaves the job
\* (the for statement is outside the try block); error_handler gets no
\* update to answer.
SweepAbort ==
    /\ sweep.pc = "run"
    /\ Advance(sweep.k, sweep.i).kind = "RuntimeError"
    /\ sweep' = [pc |-> "idle", size |-> 0, k |-> 0, i |-> 0]
    /\ update' = NoUpdate
    /\ msgs' = <<>>
    /\ calls' = <<>>
    /\ UNCHANGED << conv, user_data, user_searches, subKeys, active_subscriptions,
                    now, today, diff >>

\* Midnight passes.
AdvanceDay ==
    /\ today # LastDay
    /\ today' = NextDay(today)
    /\ update' = NoUpdate
    /\ msgs' = <<>>
    /\ calls' = <<>>
    /\ UNCHANGED << conv, user_data, user_searches, subKeys, active_subscriptions,
                    sweep, now, diff >>

\* ------------------------------------------------------------- the history

\* The candidates a suggester exchange gives the user: none when it failed.
Candidates(resp) == IF resp.kind = "json" THEN resp.list ELSE <<>>

\* Days in calendar order.
DayNumber(a) == a.y * 10000 + a.m * 100 + a.d

\* The text is a day of the calendar, written day.month.year.
MonthLengths(y) ==
    << 31, IF (y % 4 = 0 /\ y % 100 # 0) \/ y % 400 = 0 THEN 29 ELSE 28,
       31, 30, 31, 30, 31, 31, 30, 31, 30, 31 >>
OnCalendar(t) ==
    /\ t.fmt = "d.m.Y"
    /\ t.y \in 1..9999
    /\ t.m \in 1..12
    /\ t.d \in 1..MonthLengths(t.y)[t.m]

\* What the user of the step's update has entered since the last /search: the
\* first candidate for a station name typed when a station was asked for, the
\* day typed when the date was asked for and the day is on the calendar and
\* not before today.
ObserveEntered ==
    LET u == update'.user
        typed == update'.kind = "text"
        found == Candidates(calls'[1].resp)
    IN  entered' =
          IF update'.kind = "command" /\ update'.data = "/search"
          THEN [entered EXCEPT ![u] = NothingEntered[u]]
          ELSE IF typed /\ conv[u] = SELECT_STATION_FROM /\ found # <<>>
          THEN [entered EXCEPT ![u].station_from = Station(found[1].code, found[1].name)]
          ELSE IF typed /\ conv[u] = SELECT_STATION_TO /\ found # <<>>
          THEN [entered EXCEPT ![u].station_to = Station(found[1].code, found[1].name)]
          ELSE IF /\ typed /\ conv[u] = SELECT_DATE
                  /\ OnCalendar(update'.date)
                  /\ DayNumber(update'.date) >= DayNumber(today)
          THEN [entered EXCEPT ![u].date = update'.date]
          ELSE entered

\* The train numbers the delivered messages of a step name.
Named(sent) ==
    UNION { { sent[m].body[i].number : i \in DOMAIN sent[m].body } :
            m \in { n \in DOMAIN sent : sent[n].ok } } \ { None, "" }

\* The train numbers a timetable answer carries.
Carried(resp) == { resp.tp[i].number : i \in DOMAIN resp.tp }

\* told holds << u, i, T >> when a notification naming train T was delivered
\* for the i-th subscription of user u and every successful fetch for that
\* subscription since then carried T.  This is its value after the job has
\* run the loop body for a subscription.
ObserveTold ==
    LET u == subKeys[sweep'.k]
        i == sweep'.i
        resp == calls'[1].resp
        gone(t) == /\ t[1] = u /\ t[2] = i
                   /\ resp.kind = "json"
                   /\ t[3] \notin Carried(resp)
    IN  told' = { t \in told : ~gone(t) }
                  \cup { << u, i, T >> : T \in Named(msgs') }

\* ------------------------------------------------------------- specifications

\* The steps of the search conversations.
ConvNext ==
    \/ \E u \in Users : search_start(u) /\ ObserveEntered /\ UNCHANGED told
    \/ \E u \in Users, query \in FromQueries :
          \E resp \in StationResponses(query) :
              select_station_from(u, query, resp) /\ ObserveEntered /\ UNCHANGED told
    \/ \E u \in Users, query \in ToQueries :
          \E resp \in StationResponses(query) :
              select_station_to(u, query, resp) /\ ObserveEntered /\ UNCHANGED told
    \/ \E u \in Users, date_str \in DateTexts :
          select_date(u, date_str) /\ ObserveEntered /\ UNCHANGED told
    \/ \E u \in Users, data \in {"confirm_search", "cancel_search"}, resp \in Responses :
          confirm_search(u, data, resp) /\ ObserveEntered /\ UNCHANGED told
    \/ \E u \in Users : cancel(u) /\ ObserveEntered /\ UNCHANGED told
    \/ AdvanceDay /\ UNCHANGED hist

\* The steps of the job, while the clock reads less than MaxTime.
JobNext ==
    \/ now < MaxTime /\ TickStart /\ UNCHANGED hist
    \/ \E resp \in Responses, sendOk \in BOOLEAN :
          SweepPair(resp, sendOk) /\ ObserveTold /\ UNCHANGED entered
    \/ SweepDone /\ UNCHANGED hist
    \/ SweepAbort /\ UNCHANGED hist

\* The steps of the subscription tracker, and the confirmations that give it
\* records to track (the confirmations that find nothing are steps of
\* ConvNext).  The history is not kept.
TrackNext ==
    \/ \E u \in Users, resp \in FoundResponses :
          confirm_search(u, "confirm_search", resp) /\ UNCHANGED hist
    \/ \E u \in Users, data \in SubscribeData : subscribe(u, data) /\ UNCHANGED hist
    \/ now < MaxTime /\ TickStart /\ UNCHANGED hist
    \/ \E resp \in Responses, sendOk \in BOOLEAN :
          SweepPair(resp, sendOk) /\ UNCHANGED hist
    \/ SweepDone /\ UNCHANGED hist
    \/ SweepAbort /\ UNCHANGED hist
    \/ AdvanceDay /\ UNCHANGED hist

Next ==
    \/ ConvNext
    \/ \E u \in Users, data \in SubscribeData :
          subscribe(u, data) /\ ObserveEntered /\ UNCHANGED told
    \/ JobNext

\* The whole bot, from its construction.
Spec == Init /\ [][Next]_vars

\* The conversations alone, from the bot's construction: no subscribe
\* callback arrives and the job does not fire.
ConvSpec == Init /\ [][ConvNext]_vars

\* The tracker, from the state in which every user has answered the three
\* questions of a conversation, is asked to confirm, and the day of the
\* journey has come.
TrackInit ==
    /\ conv = [u \in Users |-> CONFIRM_SEARCH]
    /\ user_data = [u \in Users |->
                      [station_from |-> Station(Suggest("Moskva")[1].code,
                                                Suggest("Moskva")[1].name),
                       station_to |-> Station(Suggest("Tver")[1].code,
                                              Suggest("Tver")[1].name),
                       date |-> DateText(28, 2, 2099)]]
    /\ user_searches = [u \in Users |-> <<>>]
    /\ subKeys = <<>>
    /\ active_subscriptions = [u \in Users |-> <<>>]
    /\ sweep = [pc |-> "idle", size |-> 0, k |-> 0, i |-> 0]
    /\ now = 0
    /\ today = NextDay(FirstDay)
    /\ update = NoUpdate
    /\ msgs = <<>>
    /\ calls = <<>>
    /\ diff = NoDiff
    /\ entered = user_data
    /\ told = NothingTold

TrackSpec == TrackInit /\ [][TrackNext]_vars

\* The whole bot with one user: every handler and the job, from the bot's
\* construction.
SoloNext ==
    \/ search_start(1) /\ ObserveEntered /\ UNCHANGED told
    \/ \E query \in FromQueries : \E resp \in StationResponses(query) :
          select_station_from(1, query, resp) /\ ObserveEntered /\ UNCHANGED told
    \/ \E query \in ToQueries : \E resp \in StationResponses(query) :
          select_station_to(1, query, resp) /\ ObserveEntered /\ UNCHANGED told
    \/ \E date_str \in DateTexts :
          select_date(1, date_str) /\ ObserveEntered /\ UNCHANGED told
    \/ \E data \in {"confirm_search", "cancel_search"}, resp \in Responses :
          confirm_search(1, data, resp) /\ ObserveEntered /\ UNCHANGED told
    \/ cancel(1) /\ ObserveEntered /\ UNCHANGED told
    \/ \E data \in SubscribeData : subscribe(1, data) /\ ObserveEntered /\ UNCHANGED told
    \/ now < MaxTime /\ TickStart /\ UNCHANGED hist
    \/ \E resp \in Responses, sendOk \in BOOLEAN :
          SweepPair(resp, sendOk) /\ UNCHANGED hist
    \/ SweepDone /\ UNCHANGED hist
    \/ SweepAbort /\ UNCHANGED hist
    \/ AdvanceDay /\ UNCHANGED hist

SoloSpec == Init /\ [][SoloNext]_vars

\* The confirmations that store records and the subscribe callbacks, of
\* every user, without the job.
SubsNext ==
    \/ \E u \in Users, resp \in FoundResponses :
          confirm_search(u, "confirm_search", resp) /\ UNCHANGED hist
    \/ \E u \in Users, data \in SubscribeData : subscribe(u, data) /\ UNCHANGED hist

SubsSpec == TrackInit /\ [][SubsNext]_vars

\* One user's records under the job, tick after tick without end, with the
\* history of what the user was told: the confirmations that store records,
\* the user's subscribe callbacks, the job and the passing of the days.
WatchNext ==
    \/ \E resp \in FoundResponses :
          confirm_search(1, "confirm_search", resp) /\ UNCHANGED hist
    \/ \E data \in SubscribeData : subscribe(1, data) /\ UNCHANGED hist
    \/ TickStart /\ UNCHANGED hist
    \/ \E resp \in Responses, sendOk \in BOOLEAN :
          SweepPair(resp, sendOk) /\ ObserveTold /\ UNCHANGED entered
    \/ SweepDone /\ UNCHANGED hist
    \/ SweepAbort /\ UNCHANGED hist
    \/ AdvanceDay /\ UNCHANGED hist

WatchSpec == TrackInit /\ [][WatchNext]_vars

\* The pass of the job for the j-th subscription of a user in which the
\* provider answers with the long timetable and the notification is sent.
GoodPass(j) ==
    /\ SweepPair(JsonBody(TrainsLong), TRUE)
    /\ UNCHANGED hist
    /\ sweep'.i = j

\* A step of the job once it has been fired.
JobStep ==
    \/ \E resp \in Responses, sendOk \in BOOLEAN : SweepPair(resp, sendOk) /\ UNCHANGED hist
    \/ SweepDone /\ UNCHANGED hist
    \/ SweepAbort /\ UNCHANGED hist

\* One user's records under the job, tick after tick without end: the
\* confirmations that store a record of the short timetable, the subscribe
\* callbacks for the user's first record, the job and the passing of the
\* days.  The history is not kept.
LiveNext ==
    \/ confirm_search(1, "confirm_search", JsonBody(TrainsAB)) /\ UNCHANGED hist
    \/ subscribe(1, IntData(0)) /\ UNCHANGED hist
    \/ TickStart /\ UNCHANGED hist
    \/ JobStep
    \/ AdvanceDay /\ UNCHANGED hist

\* LiveNext with the scheduling of run: run_repeating fires the job again
\* and again and a fired job runs its loops to their end; and, for every
\* subscription, again and again a pass in which the fetch and the send
\* succeed and the provider has the long timetable.
LiveSpec ==
    /\ TrackInit
    /\ [][LiveNext]_vars
    /\ WF_vars(TickStart /\ UNCHANGED hist)
    /\ WF_vars(JobStep)
    /\ \A j \in 1..MaxSubs : SF_vars(GoodPass(j))

\* _find_new_tickets alone, called once on every pair of offer lists within
\* the bounds.
Offer(n, time) == [number |-> n, departure |-> << "28.02.2099", time >>]
DiffOffers ==
    { Offer("001A", "10:00"), Offer("001A", "12:00"), Offer("002B", "10:00"),
      Offer(None, "10:00"), Offer("", "10:00") }

SeqUpTo(S, n) == UNION { [1..k -> S] : k \in 0..n }

DiffInit ==
    /\ conv = [u \in Users |-> END]
    /\ user_data = [u \in Users |->
                      [station_from |-> NoStation, station_to |-> NoStation,
                       date |-> NoDateText]]
    /\ user_searches = [u \in Users |-> <<>>]
    /\ subKeys = <<>>
    /\ active_subscriptions = [u \in Users |-> <<>>]
    /\ sweep = [pc |-> "idle", size |-> 0, k |-> 0, i |-> 0]
    /\ now = 0
    /\ today = FirstDay
    /\ update = NoUpdate
    /\ msgs = <<>>
    /\ calls = <<>>
    /\ \E old_tickets \in SeqUpTo(DiffOffers, MaxOld), new_tickets \in SeqUpTo(DiffOffers, MaxLen) :
          diff = [old_tickets |-> old_tickets, new_tickets |-> new_tickets,
                  result |-> <<>>, done |-> FALSE]
    /\ entered = NothingEntered
    /\ told = NothingTold

CallFindNewTickets ==
    /\ ~diff.done
    /\ diff' = [diff EXCEPT !.result = find_new_tickets(diff.old_tickets, diff.new_tickets),
                            !.done = TRUE]
    /\ UNCHANGED << conv, user_data, user_searches, subKeys, active_subscriptions,
                    sweep, now, today, update, msgs, calls >>

DiffSpec == DiffInit /\ [][CallFindNewTickets /\ UNCHANGED hist]_vars

\* ------------------------------------------------------------- properties

\* TrackInit is a state the conversations lead to (its negation is violated
\* under ConvSpec).
TrackInitReached == TrackInit

\* A step of the job that runs the loop body for a pair: the pair is the one
\* sweep points to after the step.
IsPairStep ==
    /\ sweep.pc = "run"
    /\ sweep'.pc = "run"
    /\ << sweep'.k, sweep'.i >> # << sweep.k, sweep.i >>
PairUser == subKeys[sweep'.k]
PairPos == active_subscriptions[PairUser][sweep'.i]
PairSub == user_searches[PairUser][PairPos]
PairSubAfter == user_searches'[PairUser][PairPos]
PairResp == calls'[1].resp

\* The offers a timetable answer carries, in the provider's order.
Fetched(resp) == [i \in 1..Len(resp.tp) |-> ParseTrain(resp.tp[i])]

\* The subscription's date is strictly before today.
IsPast(sub) == DayNumber(sub.date) < DayNumber(today)

\* The new-offer set of section 4.4, offer by offer.
NonEmptyNumbers(offers) ==
    { offers[i].number : i \in DOMAIN offers } \ { None, "" }
RECURSIVE NewOffers(_, _)
NewOffers(old, new) ==
    IF new = <<>> THEN <<>>
    ELSE IF Head(new).number \in NonEmptyNumbers(old)
    THEN NewOffers(old, Tail(new))
    ELSE << Head(new) >> \o NewOffers(old, Tail(new))

\* C1: in a refresh tick, when the fetch for a pair fails, no notification
\* is sent for the pair and the subscription's tickets and last_check are
\* after the step what they were before it.
C1_FailedFetchChangesNothing ==
    [][ (IsPairStep /\ PairResp.kind # "json")
        => /\ msgs' = <<>>
           /\ PairSubAfter.tickets = PairSub.tickets
           /\ PairSubAfter.last_check = PairSub.last_check ]_vars

\* C2: in a refresh tick whose fetch succeeds for a subscription that is not
\* past its date, the stored tickets become the fetched ones and last_check
\* the current time, whatever the diff and whether or not the send failed.
C2_SuccessfulFetchAlwaysStored ==
    [][ (IsPairStep /\ PairResp.kind = "json" /\ ~IsPast(PairSub))
        => /\ PairSubAfter.tickets = Fetched(PairResp)
           /\ PairSubAfter.last_check = now ]_vars

\* C3: for a subscription whose date is strictly before today, the tick
\* makes no fetch call, sends nothing, changes nothing in the subscription
\* and leaves it in the user's list.
C3_PastDateIsInert ==
    [][ (IsPairStep /\ IsPast(PairSub))
        => /\ calls' = <<>>
           /\ msgs' = <<>>
           /\ user_searches' = user_searches
           /\ active_subscriptions' = active_subscriptions ]_vars

\* The train numbers of a list of offers, in its order.
Numbers(offers) == [i \in DOMAIN offers |-> offers[i].number]

\* C4: the baseline of a subscription's first refresh is the ticket list of
\* the confirmed search: a confirmation stores the offers it fetched,
\* subscribing and every step other than a refresh leave a record's tickets
\* alone, and a refresh that fetches the train numbers the record holds
\* sends nothing and sets last_check to the current time.
C4_FirstRefreshAgainstConfirmedSearch ==
    [][ /\ \A u \in Users :
              Len(user_searches'[u]) > Len(user_searches[u])
              => /\ Len(user_searches'[u]) = Len(user_searches[u]) + 1
                 /\ user_searches'[u][Len(user_searches'[u])].tickets
                       = Fetched(calls'[1].resp)
        /\ \A u \in Users : \A p \in DOMAIN user_searches[u] :
              user_searches'[u][p].tickets # user_searches[u][p].tickets
              => IsPairStep /\ u = PairUser /\ p = PairPos
        /\ (/\ IsPairStep
            /\ PairResp.kind = "json"
            /\ ~IsPast(PairSub)
            /\ Numbers(Fetched(PairResp)) = Numbers(PairSub.tickets))
           => /\ msgs' = <<>>
              /\ PairSubAfter.last_check = now ]_vars

\* C5: in a refresh tick with a successful fetch, a non-empty new-offer set
\* causes exactly one message, to the owning user, listing exactly the new
\* offers, and afterwards the stored tickets are the fetched ones; an empty
\* new-offer set causes no message.
C5_OneNotificationOfTheNewOffers ==
    [][ (IsPairStep /\ PairResp.kind = "json" /\ ~IsPast(PairSub))
        => LET new == NewOffers(PairSub.tickets, Fetched(PairResp))
           IN  IF new = <<>>
               THEN msgs' = <<>>
               ELSE /\ Len(msgs') = 1
                    /\ msgs'[1].to = PairUser
                    /\ msgs'[1].kind = "new_tickets"
                    /\ msgs'[1].body = new
                    /\ PairSubAfter.tickets = Fetched(PairResp) ]_vars

\* The step in which user u presses confirm under the summary.
IsConfirm(u) ==
    /\ conv[u] = CONFIRM_SEARCH
    /\ update'.user = u
    /\ update'.kind = "callback_query"
    /\ update'.data = "confirm_search"

\* C6: when the provider call fails during confirm the user gets the generic
\* error message, when it succeeds with zero offers the user gets "no
\* tickets found"; either way the conversation ends and no record is stored.
C6_FailedFetchIsNotAnEmptyResult ==
    [][ \A u \in Users :
          IsConfirm(u)
          => LET resp == calls'[1].resp
             IN  /\ resp.kind # "json"
                    => /\ msgs' = << Msg(u, "search_error") >>
                       /\ conv'[u] = END
                       /\ user_searches' = user_searches
                 /\ (resp.kind = "json" /\ resp.tp = <<>>)
                    => /\ msgs' = << Msg(u, "no_tickets") >>
                       /\ conv'[u] = END
                       /\ user_searches' = user_searches ]_vars

\* C7: a confirm whose search finds offers emits up to 5 of them, stores
\* exactly one record for the user, offers a subscribe action carrying the
\* position of that record in the user's list, and ends the conversation, so
\* that no second confirm can store another record.
C7_ConfirmStoresOnceAndOffersSubscribe ==
    [][ \A u \in Users :
          (IsConfirm(u) /\ calls'[1].resp.kind = "json" /\ calls'[1].resp.tp # <<>>)
          => LET offers == Fetched(calls'[1].resp)
             IN  /\ Len(user_searches'[u]) = Len(user_searches[u]) + 1
                 /\ \A v \in Users \ {u} : user_searches'[v] = user_searches[v]
                 /\ msgs' = << MsgOffers(u, "found_tickets",
                                         SubSeq(offers, 1, IF Len(offers) < 5
                                                           THEN Len(offers) ELSE 5),
                                         TRUE),
                               MsgButton(u, "offer_subscribe", Len(user_searches'[u]) - 1) >>
                 /\ conv'[u] = END ]_vars

\* C8: diff(O, O) is the empty sequence for every O, offers without a train
\* number included.
C8_SelfDiffIsEmpty ==
    (diff.done /\ diff.old_tickets = diff.new_tickets) => diff.result = <<>>

\* s is t with some of its elements left out.
IsSubsequence(s, t) ==
    \E f \in [DOMAIN s -> DOMAIN t] :
        /\ \A i \in DOMAIN s : s[i] = t[f[i]]
        /\ \A i, j \in DOMAIN s : i < j => f[i] < f[j]

\* C9: diff(O, N) is the subsequence of N, in N's order, of the offers whose
\* train number is not among the non-empty train numbers of O: it is a
\* subsequence of N, none of its offers shares a non-empty train number with
\* an offer of O, and diff([], N) = N.
C9_DiffIsTheNewOffers ==
    diff.done
    => /\ diff.result = NewOffers(diff.old_tickets, diff.new_tickets)
       /\ IsSubsequence(diff.result, diff.new_tickets)
       /\ \A i \in DOMAIN diff.result :
             diff.result[i].number \notin NonEmptyNumbers(diff.old_tickets)
       /\ diff.old_tickets = <<>> => diff.result = diff.new_tickets

\* An old list with a numberless offer, a new list with a known train at
\* another time, a numberless offer and an unknown train: the diff keeps
\* the last two.
C9_Witness ==
    /\ diff.done
    /\ diff.old_tickets = << Offer(None, "10:00"), Offer("001A", "10:00") >>
    /\ diff.new_tickets = << Offer("001A", "12:00"), Offer(None, "10:00"),
                             Offer("002B", "10:00") >>
    /\ diff.result = << Offer(None, "10:00"), Offer("002B", "10:00") >>

\* C10: in SELECT_DATE a text that is no calendar day, or a day before
\* today, leaves the state and the stored date as they are and asks again;
\* a day equal to or after today is stored and the state becomes
\* CONFIRM_SEARCH.
C10_DateStep ==
    [][ \A u \in Users :
          (conv[u] = SELECT_DATE /\ update'.user = u /\ update'.kind = "text")
          => LET t == update'.date
             IN  IF OnCalendar(t) /\ DayNumber(t) >= DayNumber(today)
                 THEN /\ conv'[u] = CONFIRM_SEARCH
                      /\ user_data'[u].date = t
                      /\ msgs' = << Msg(u, "confirm_or_cancel") >>
                 ELSE /\ conv'[u] = SELECT_DATE
                      /\ user_data'[u] = user_data[u]
                      /\ msgs' = << Msg(u, "bad_date_ask_date") >> ]_vars

\* 31.02.2099 was typed, the conversation still waits for a date and the
\* prompt was sent again.
C10_Witness ==
    /\ update.kind = "text"
    /\ update.date = DateText(31, 2, 2099)
    /\ conv[update.user] = SELECT_DATE
    /\ user_data[update.user].date = NoDateText
    /\ msgs = << Msg(update.user, "bad_date_ask_date") >>

\* The step in which the job leaves its loops.
IsSweepEnd == sweep.pc = "run" /\ sweep'.pc = "idle"

\* The step in which a subscribe callback is handled while the job is in its
\* loops.
IsSubscribeDuringSweep ==
    /\ sweep.pc = "run"
    /\ update'.kind = "callback_query"
    /\ update'.data = "subscribe_<index>"

\* s is the beginning of t.
IsPrefix(s, t) == Len(s) <= Len(t) /\ SubSeq(t, 1, Len(s)) = s

\* C11: a subscribe handled while a sweep is in progress, the first subscribe
\* of a user without an entry in the subscription map included, never makes
\* the sweep end by an exception (its loops end only by running out of
\* pairs), and adds at most one entry, after the entries already there.
C11_SubscribeDuringSweepIsSafe ==
    [][ /\ IsSweepEnd => Advance(sweep.k, sweep.i).kind = "StopIteration"
        /\ IsSubscribeDuringSweep
           => /\ sweep' = sweep
              /\ \A u \in Users :
                    /\ IsPrefix(active_subscriptions[u], active_subscriptions'[u])
                    /\ Len(active_subscriptions'[u])
                          <= Len(active_subscriptions[u])
                             + (IF u = update'.user THEN 1 ELSE 0) ]_vars

\* The step in which user u presses a subscribe_<index> button whose index
\* is the index of none of u's records (negative indices count from the end
\* of the list, as the program's list indexing has it).
IsSubscribeOfNoRecord(u) ==
    /\ update'.user = u
    /\ update'.kind = "callback_query"
    /\ update'.data = "subscribe_<index>"
    /\ \/ user_searches[u] = <<>>
       \/ update'.n >= Len(user_searches[u])
       \/ update'.n < -Len(user_searches[u])

\* C12: a subscribe_<index> whose index references no record of the user's
\* search list (no searches, or index out of range) is answered with the
\* generic failure message and nothing else: no subscription is added for
\* any user, no record or conversation changes, and the reply of
\* /subscriptions is for every user what it was.
C12_SubscribeOfNoRecordIsNoOp ==
    [][ \A u \in Users :
          IsSubscribeOfNoRecord(u)
          => /\ active_subscriptions' = active_subscriptions
             /\ msgs' = << Msg(u, "error_handler") >>
             /\ user_searches' = user_searches
             /\ conv' = conv
             /\ \A v \in Users : show_subscriptions(v)' = show_subscriptions(v) ]_vars

\* User 1 has one record and one subscription and has pressed a button whose
\* index is past the end of the list: the failure message is the answer.
C12_Witness ==
    /\ update.kind = "callback_query"
    /\ update.data = "subscribe_<index>"
    /\ update.n >= Len(user_searches[update.user])
    /\ Len(user_searches[update.user]) > 0
    /\ Len(active_subscriptions[update.user]) > 0
    /\ msgs = << Msg(update.user, "error_handler") >>

\* The states of a conversation that has not ended.
NonTerminal == { SELECT_STATION_FROM, SELECT_STATION_TO, SELECT_DATE, CONFIRM_SEARCH }

\* The step in which a record is appended to the search list of user u.
IsRecordStored(u) == Len(user_searches'[u]) > Len(user_searches[u])

\* The record that step appended.
StoredRecord(u) == user_searches'[u][Len(user_searches'[u])]

\* C13: /cancel is accepted in each of the four states of a running
\* conversation, ends the conversation with the acknowledgment and stores no
\* record; and the stations and the date of every record stored later are
\* the ones entered since the /search that began its conversation, so
\* nothing entered before a cancel gets into a record.
C13_CancelEndsAndDiscards ==
    [][ \A u \in Users :
          /\ conv[u] \in NonTerminal => ENABLED cancel(u)
          /\ (conv[u] \in NonTerminal /\ update' = Command(u, "/cancel"))
             => /\ conv'[u] = END
                /\ msgs' = << Msg(u, "action_cancelled") >>
                /\ user_searches' = user_searches
          /\ IsRecordStored(u)
             => /\ StoredRecord(u).from = entered[u].station_from
                /\ StoredRecord(u).to = entered[u].station_to
                /\ StoredRecord(u).date = entered[u].date ]_vars

\* A conversation was cancelled when the summary was shown: it has ended and
\* the stations and the date it was given are still in user_data.
C13_Witness ==
    /\ update.kind = "command"
    /\ update.data = "/cancel"
    /\ conv[update.user] = END
    /\ msgs = << Msg(update.user, "action_cancelled") >>
    /\ user_data[update.user].station_from # NoStation
    /\ user_data[update.user].date # NoDateText
    /\ user_searches[update.user] = <<>>

\* The step in which user u answers the question for a station.
IsStationTyped(u, state) ==
    /\ conv[u] = state
    /\ update'.user = u
    /\ update'.kind = "text"

\* C14: in SELECT_STATION_FROM (SELECT_STATION_TO) a name for which the
\* resolver gives no candidate leaves the state and everything stored as it
\* is; a name with candidates stores the first of them as station_from
\* (station_to), nothing else, and the state becomes SELECT_STATION_TO
\* (SELECT_DATE).
C14_StationStep ==
    [][ \A u \in Users :
          LET found == Candidates(calls'[1].resp)
              first == Station(found[1].code, found[1].name)
          IN  /\ IsStationTyped(u, SELECT_STATION_FROM)
                 => IF found = <<>>
                    THEN /\ conv'[u] = SELECT_STATION_FROM
                         /\ user_data' = user_data
                         /\ user_searches' = user_searches
                    ELSE /\ conv'[u] = SELECT_STATION_TO
                         /\ user_data' = [user_data EXCEPT ![u].station_from = first]
              /\ IsStationTyped(u, SELECT_STATION_TO)
                 => IF found = <<>>
                    THEN /\ conv'[u] = SELECT_STATION_TO
                         /\ user_data' = user_data
                         /\ user_searches' = user_searches
                    ELSE /\ conv'[u] = SELECT_DATE
                         /\ user_data' = [user_data EXCEPT ![u].station_to = first] ]_vars

\* The resolver gave two candidates for the name typed as the departure
\* station: the first is stored and the destination is asked for.
C14_Witness ==
    /\ update.kind = "text"
    /\ update.data = "Moskva"
    /\ Len(calls) = 1
    /\ Len(Candidates(calls[1].resp)) = 2
    /\ conv[update.user] = SELECT_STATION_TO
    /\ user_data[update.user].station_from = Station("2000000", "MOSKVA")
    /\ user_data[update.user].station_to = NoStation

\* The record the j-th subscription of user v holds.
EntryRecord(v, j) == user_searches[v][active_subscriptions[v][j]]
EntryRecordAfter(v, j) == user_searches'[v][active_subscriptions'[v][j]]

\* The subscriptions other than the one the job's step is about.
OtherEntries ==
    { e \in Users \X (1..MaxSubs) :
        /\ e[2] \in DOMAIN active_subscriptions[e[1]]
        /\ e # << PairUser, sweep'.i >> }

\* The step in which user u presses the subscribe button of one of u's
\* records.
IsSubscribeOfRecord(u) ==
    /\ update'.user = u
    /\ update'.kind = "callback_query"
    /\ update'.data = "subscribe_<index>"
    /\ update'.n \in 0..(Len(user_searches[u]) - 1)

\* C15: subscribe never deduplicates, each subscribe of a record appends one
\* more entry to the user's list; and the entries are tracked independently:
\* the pass of the job for one entry leaves the tickets and last_check held
\* for every other entry as they are, so that each entry is diffed against
\* what was stored for it.
C15_EntriesAreIndependent ==
    [][ /\ \A u \in Users :
              IsSubscribeOfRecord(u)
              => /\ Len(active_subscriptions'[u]) = Len(active_subscriptions[u]) + 1
                 /\ IsPrefix(active_subscriptions[u], active_subscriptions'[u])
                 /\ EntryRecordAfter(u, Len(active_subscriptions'[u]))
                       = user_searches[u][update'.n + 1]
        /\ IsPairStep
           => \A e \in OtherEntries :
                 /\ EntryRecordAfter(e[1], e[2]).tickets = EntryRecord(e[1], e[2]).tickets
                 /\ EntryRecordAfter(e[1], e[2]).last_check
                       = EntryRecord(e[1], e[2]).last_check ]_vars

\* The step in which the job's pass for a subscription fails: the provider
\* call fails or the notification cannot be sent.
IsFailedPairStep ==
    /\ IsPairStep
    /\ \/ PairResp.kind # "json"
       \/ \E m \in DOMAIN msgs' : ~msgs'[m].ok

\* C16: within a pass of the job a failure for one subscription leaves the
\* job in its loops with the collections it iterates untouched, so that the
\* other subscriptions are still processed, and changes the stored tickets
\* and last_check of no other subscription.
C16_FailuresAreIsolated ==
    [][ IsFailedPairStep
        => /\ sweep'.pc = "run"
           /\ subKeys' = subKeys
           /\ active_subscriptions' = active_subscriptions
           /\ \A e \in OtherEntries :
                 /\ EntryRecordAfter(e[1], e[2]).tickets = EntryRecord(e[1], e[2]).tickets
                 /\ EntryRecordAfter(e[1], e[2]).last_check
                       = EntryRecord(e[1], e[2]).last_check ]_vars

\* A record with its two stations and its date set.
IsComplete(rec) ==
    /\ rec.from.code # None /\ rec.from.name # None
    /\ rec.to.code # None /\ rec.to.name # None
    /\ OnCalendar(rec.date)

\* C17: every record of every search list has from, to and date set, and
\* every subscription is one of these records; a record is stored only by a
\* confirm pressed in CONFIRM_SEARCH whose search found tickets, one at a
\* time and after the records already there, with the stations and the date
\* entered in its conversation; and from, to and date of a stored record
\* never change.
C17_RecordsAreCompleteAndFromConfirm ==
    [][ \A u \in Users :
          /\ \A p \in DOMAIN user_searches[u] : IsComplete(user_searches[u][p])
          /\ \A j \in DOMAIN active_subscriptions[u] :
                active_subscriptions[u][j] \in DOMAIN user_searches[u]
          /\ Len(user_searches'[u]) >= Len(user_searches[u])
          /\ \A p \in DOMAIN user_searches[u] :
                /\ user_searches'[u][p].from = user_searches[u][p].from
                /\ user_searches'[u][p].to = user_searches[u][p].to
                /\ user_searches'[u][p].date = user_searches[u][p].date
          /\ IsRecordStored(u)
             => /\ IsConfirm(u)
                /\ calls'[1].resp.kind = "json"
                /\ calls'[1].resp.tp # <<>>
                /\ Len(user_searches'[u]) = Len(user_searches[u]) + 1
                /\ IsComplete(StoredRecord(u))
                /\ StoredRecord(u).from = entered[u].station_from
                /\ StoredRecord(u).to = entered[u].station_to
                /\ StoredRecord(u).date = entered[u].date ]_vars

\* A record was stored, subscribed and refreshed by the job, and its user is
\* in a later conversation that has a departure station but not yet a
\* destination of its own.
C17_Witness ==
    /\ Len(user_searches[1]) = 1
    /\ active_subscriptions[1] = << 1 >>
    /\ user_searches[1][1].last_check = 1
    /\ IsComplete(user_searches[1][1])
    /\ conv[1] = SELECT_STATION_TO
    /\ entered[1].station_to = NoStation
    /\ user_data[1].station_to # NoStation

\* C18: once a notification naming train T has been delivered for a
\* subscription, no later pass of the job delivers another one naming T for
\* that subscription while every successful fetch for it since then carried
\* T, whatever failed fetches and skipped passes came in between.
C18_NoTrainAnnouncedTwice ==
    [][ IsPairStep
        => \A T \in Named(msgs') : << PairUser, sweep'.i, T >> \notin told ]_vars

\* The step changes nothing of the p-th record of user u but, when it is
\* the job's pass for a subscription to that record, its tickets and
\* last_check.
RecordKept(u, p) ==
    IF IsPairStep /\ u = PairUser /\ p = PairPos
    THEN /\ user_searches'[u][p].from = user_searches[u][p].from
         /\ user_searches'[u][p].to = user_searches[u][p].to
         /\ user_searches'[u][p].date = user_searches[u][p].date
    ELSE user_searches'[u][p] = user_searches[u][p]

NewTrain == "003C"

\* The p-th record of user 1 is subscribed, its day has not passed and its
\* stored tickets do not have the train.
AwaitsTrain(p) ==
    /\ p \in DOMAIN user_searches[1]
    /\ \E j \in DOMAIN active_subscriptions[1] : active_subscriptions[1][j] = p
    /\ ~IsPast(user_searches[1][p])
    /\ NewTrain \notin NonEmptyNumbers(user_searches[1][p].tickets)

\* The day of the p-th record of user 1 has passed.
DayHasPassed(p) == p \in DOMAIN user_searches[1] /\ IsPast(user_searches[1][p])

\* A notification naming the train has just been delivered to user 1.
ToldOfTrain ==
    \E m \in DOMAIN msgs :
        /\ msgs[m].kind = "new_tickets"
        /\ msgs[m].to = 1
        /\ msgs[m].ok
        /\ \E i \in DOMAIN msgs[m].body : msgs[m].body[i].number = NewTrain

\* The same of the messages of the step.
ToldOfTrainAfter ==
    \E m \in DOMAIN msgs' :
        /\ msgs'[m].kind = "new_tickets"
        /\ msgs'[m].to = 1
        /\ msgs'[m].ok
        /\ \E i \in DOMAIN msgs'[m].body : msgs'[m].body[i].number = NewTrain

\* C20: when the stored tickets of a subscribed record whose day has not
\* passed lack a train, and the job keeps being fired with passes in which
\* the provider has the train and fetch and send succeed, a notification
\* naming the train is eventually delivered to the record's user (or the
\* record's day passes first); and no step puts the train into the stored
\* tickets of a record without that notification being delivered in it.
C20_NewTrainIsEventuallyAnnounced ==
    /\ [][ \A p \in DOMAIN user_searches[1] :
             (/\ NewTrain \notin NonEmptyNumbers(user_searches[1][p].tickets)
              /\ NewTrain \in NonEmptyNumbers(user_searches'[1][p].tickets))
             => ToldOfTrainAfter ]_vars
    /\ \A p \in 1..MaxSearches :
          AwaitsTrain(p) ~> (ToldOfTrain \/ DayHasPassed(p))

\* A pass of the job has just delivered the notification naming the train
\* for a record whose day has not passed, and the train is now in the
\* record's stored tickets.
C20_Witness ==
    /\ ToldOfTrain
    /\ sweep.pc = "run"
    /\ now = MaxTime
    /\ \E p \in DOMAIN user_searches[1] :
          /\ ~IsPast(user_searches[1][p])
          /\ NewTrain \in NonEmptyNumbers(user_searches[1][p].tickets)
          /\ user_searches[1][p].last_check = now

====
